---- MODULE Spec2Model ----
(***************************************************************************)
(* A model of transit_periodogram.c: compute_objective and                 *)
(* run_transit_periodogram (range validation, buffer life cycle, global    *)
(* accumulation, and the per-period binning / wrap / cumulative sum /      *)
(* duration-phase scan, run by one thread or by an OpenMP team).           *)
(*                                                                         *)
(* Numbers.  Times, fluxes and weights are drawn from small sets of        *)
(* integers, on which the double arithmetic of the program is exact for    *)
(* sums and products.  A quotient is kept as the exact fraction n/d in     *)
(* lowest terms, [n |-> n, d |-> d] with d > 0.  A value the program       *)
(* obtains through sqrt is kept as the fraction q it is the signed root    *)
(* of (the real number sgn(q)*sqrt(|q|)); the map is strictly increasing,  *)
(* so the comparisons of the program are preserved.  -INFINITY is          *)
(* [n |-> -1, d |-> 0]; a double that was never assigned is                *)
(* [n |-> 0, d |-> 0].  DBL_EPSILON lies strictly between 0 and 1.         *)
(***************************************************************************)
EXTENDS Integers, Sequences, FiniteSets, TLC

\* ------------------------------------------------------------- bounds
\* the largest flux of a sample, and the largest size of the OpenMP team
MaxY == 1
MaxThreads == 2

\* the light curve has three samples, one of them before time 0; a sample of
\* weight 0 enters no sum, so its flux is taken as 0
SampleIndex == 0 .. 2
SampleTimes == << -2, 0, 1 >>
WeightValues == {0, 1}
\* two periods and two durations, invalid values included
PeriodIndex == 0 .. 1
DurationIndex == 0 .. 1
PeriodValues == {0, 2, 3}
DurationValues == {0, 1, 2, 3}
OversampleValues == {1, 2}
\* what malloc'ed storage may hold
GarbageValues == {7}

\* ------------------------------------------------- exact real arithmetic
Abs(x) == IF x < 0 THEN -x ELSE x

RECURSIVE Gcd(_, _)
Gcd(a, b) == IF b = 0 THEN a ELSE Gcd(b, a % b)

Rat(n, d) ==
    LET g == Gcd(Abs(n), Abs(d))
        s == IF d < 0 THEN -1 ELSE 1
    IN  [n |-> (s * n) \div g, d |-> (s * d) \div g]

FromInt(i) == [n |-> i, d |-> 1]
RAdd(a, b) == Rat(a.n * b.d + b.n * a.d, a.d * b.d)
RSub(a, b) == Rat(a.n * b.d - b.n * a.d, a.d * b.d)
RMul(a, b) == Rat(a.n * b.n, a.d * b.d)
RDiv(a, b) == Rat(a.n * b.d, a.d * b.n)
\* a > b and a >= b; either side may be -INFINITY
RGt(a, b) == a.n * b.d > b.n * a.d
RGe(a, b) == a.n * b.d >= b.n * a.d

NegInf == [n |-> -1, d |-> 0]
Unassigned == [n |-> 0, d |-> 0]

\* x < DBL_EPSILON, for an integer x
LtEpsilon(x) == x <= 0

\* (int)x, round(x), fmod(x, m) and fabs
Trunc(a) == IF a.n >= 0 THEN a.n \div a.d ELSE -((-a.n) \div a.d)
Round(a) ==
    IF a.n >= 0 THEN (2 * a.n + a.d) \div (2 * a.d)
    ELSE -((2 * (-a.n) + a.d) \div (2 * a.d))
FMod(x, m) == IF x >= 0 THEN x % m ELSE -((-x) % m)
RFMod(a, m) == RSub(a, FromInt(m * Trunc(RDiv(a, FromInt(m)))))

\* sgn(a) * a^2 / e2: the quotient a / sqrt(e2), kept as its signed square
DivBySqrt(a, e2) ==
    LET sq == RDiv(RMul(a, a), e2)
    IN  IF a.n < 0 THEN [n |-> -sq.n, d |-> sq.d] ELSE sq

\* --------------------------------------------------- compute_objective
Locals0 ==
    [objective |-> Unassigned, log_like |-> Unassigned, depth |-> Unassigned,
     depth_err |-> Unassigned, depth_snr |-> Unassigned]

\* loc holds the five doubles the caller passes by address; the call assigns
\* those of its branch and leaves the others as they were.
compute_objective(y_in, y_out, ivar_in, ivar_out, sum_y2, sum_y, sum_ivar, flag, loc) ==
    IF flag # 0 THEN
        LET arg == RSub(y_in, y_out)
            c1 == RSub(FromInt(sum_y2), RMul(RMul(FromInt(2), y_out), FromInt(sum_y)))
            c2 == RAdd(c1, RMul(RMul(y_out, y_out), FromInt(sum_ivar)))
            chi2 == RSub(c2, RMul(RMul(arg, arg), FromInt(ivar_in)))
            ll == RMul(Rat(-1, 2), chi2)
        IN  [loc EXCEPT !.log_like = ll, !.objective = ll]
    ELSE
        LET depth == RSub(y_out, y_in)
            err2 == RAdd(Rat(1, ivar_in), Rat(1, ivar_out))
            snr == DivBySqrt(depth, err2)
        IN  [loc EXCEPT !.depth = depth, !.depth_err = err2,
                        !.depth_snr = snr, !.objective = snr]

\* ---------------------------------------------------------------- state
VARIABLES
    args,             \* the arguments of the call: N, t, y, ivar, n_periods, periods,
                      \* n_durations, durations, oversample, obj_flag
    openmp,           \* TRUE when the build defines _OPENMP
    pc,               \* position of the calling thread in run_transit_periodogram
    status,           \* the value returned (meaningful when pc = "done")
    acquired,         \* per buffer, how many times malloc returned it
    released,         \* per buffer, how many times it was passed to free
    failed,           \* the malloc site that returned NULL, or "none"
    bin_duration, max_n_bins, durations_index, nthreads,
    mean_y_0, mean_ivar_0,
    sums,             \* sum_y2, sum_y, sum_ivar
    th,               \* per thread: its position in the loop body and its locals
    assigned,         \* the iterations p handed to some thread
    finished,         \* the iterations p whose body has run to its end
    out,              \* the seven output arrays
    writes,           \* per output array and slot, the number of stores so far
    accepted          \* per period, the number of windows kept as the new best

vars == <<args, openmp, pc, status, acquired, released, failed, bin_duration,
          max_n_bins, durations_index, nthreads, mean_y_0, mean_ivar_0, sums,
          th, assigned, finished, out, writes, accepted>>

Buffers == {"durations_index", "mean_y_0", "mean_ivar_0"}
Fields == {"best_objective", "best_depth", "best_depth_err", "best_duration",
           "best_phase", "best_depth_snr", "best_log_like"}
Threads == 0 .. (MaxThreads - 1)
Idle == [pc |-> "idle", p |-> 0, n_bins |-> 0, k |-> 0, n |-> 0, loc |-> Locals0]

Periods == 0 .. (args.n_periods - 1)
Durations == 0 .. (args.n_durations - 1)
blocksize == max_n_bins + 1

\* ----------------------------------------------------------------- Init
Samples(ws) == {c \in [y : 0 .. MaxY, ivar : ws] : c.ivar = 0 => c.y = 0}

InitWith(omp, ws, oss, flags, dix) ==
    /\ \E lc \in [SampleIndex -> Samples(ws)],
          pp \in [PeriodIndex -> PeriodValues],
          dd \in [dix -> DurationValues],
          os \in oss, flag \in flags :
            args = [N |-> Cardinality(SampleIndex),
                    t |-> [i \in SampleIndex |-> SampleTimes[i + 1]],
                    y |-> [i \in SampleIndex |-> lc[i].y],
                    ivar |-> [i \in SampleIndex |-> lc[i].ivar],
                    n_periods |-> Cardinality(PeriodIndex), periods |-> pp,
                    n_durations |-> Cardinality(dix), durations |-> dd,
                    oversample |-> os, obj_flag |-> flag]
    /\ openmp = omp
    /\ pc = "validate"
    /\ status = 0
    /\ acquired = [b \in Buffers |-> 0]
    /\ released = [b \in Buffers |-> 0]
    /\ failed = "none"
    /\ bin_duration = Unassigned
    /\ max_n_bins = 0
    /\ durations_index = << >>
    /\ nthreads = 0
    /\ mean_y_0 = << >>
    /\ mean_ivar_0 = << >>
    /\ sums = [sum_y2 |-> 0, sum_y |-> 0, sum_ivar |-> 0]
    /\ th = [w \in Threads |-> Idle]
    /\ assigned = {}
    /\ finished = {}
    /\ out = [f \in Fields |-> [p \in PeriodIndex |-> Unassigned]]
    /\ writes = [f \in Fields |-> [p \in PeriodIndex |-> 0]]
    /\ accepted = [p \in PeriodIndex |-> 0]

\* the build without OpenMP
Init == InitWith(FALSE, WeightValues, OversampleValues, {0, 1}, DurationIndex)

\* the OpenMP build, on the light curves whose samples all carry weight, binned
\* without oversampling and searched by depth SNR with one duration
InitOMP == InitWith(TRUE, WeightValues \ {0}, {1}, {0}, {0})

\* ------------------------------------------- validation and bin width
RECURSIVE MinFrom(_, _, _, _)
MinFrom(arr, k, n, cur) ==
    IF k >= n THEN cur
    ELSE MinFrom(arr, k + 1, n, IF arr[k] < cur THEN arr[k] ELSE cur)

RECURSIVE MaxFrom(_, _, _, _)
MaxFrom(arr, k, n, cur) ==
    IF k >= n THEN cur
    ELSE MaxFrom(arr, k + 1, n, IF arr[k] > cur THEN arr[k] ELSE cur)

\* a variant that tests the durations before the periods
RangeStatusDurationsFirst(min_period, min_duration, max_duration) ==
    IF (max_duration > min_period) \/ LtEpsilon(min_duration) THEN 2
    ELSE IF LtEpsilon(min_period) THEN 1
    ELSE 0

RangeStatus(min_period, min_duration, max_duration) ==
    IF LtEpsilon(min_period) THEN 1
    ELSE IF (max_duration > min_period) \/ LtEpsilon(min_duration) THEN 2
    ELSE 0

Validate ==
    /\ pc = "validate"
    /\ LET min_period == MinFrom(args.periods, 1, args.n_periods, args.periods[0])
           max_period == MaxFrom(args.periods, 1, args.n_periods, args.periods[0])
           min_duration == MinFrom(args.durations, 1, args.n_durations, args.durations[0])
           max_duration == MaxFrom(args.durations, 1, args.n_durations, args.durations[0])
           st == RangeStatus(min_period, min_duration, max_duration)
           bd == Rat(min_duration, args.oversample)
       IN  IF st # 0
           THEN /\ status' = st
                /\ pc' = "done"
                /\ UNCHANGED <<bin_duration, max_n_bins>>
           ELSE /\ bin_duration' = bd
                /\ max_n_bins' = Trunc(RDiv(FromInt(max_period), bd)) + args.oversample
                /\ pc' = "alloc_durations_index"
                /\ UNCHANGED status
    /\ UNCHANGED <<args, openmp, acquired, released, failed, durations_index,
                   nthreads, mean_y_0, mean_ivar_0, sums, th, assigned, finished,
                   out, writes, accepted>>

\* ------------------------------------------------------ buffer life cycle
\* a variant whose last failure branch forgets free(mean_y_0)
FreedOnFailureLeak(site) ==
    CASE site = "durations_index" -> {}
      [] site = "mean_y_0" -> {"durations_index"}
      [] site = "mean_ivar_0" -> {"durations_index"}

\* the buffers the failure branch of a malloc site frees before it returns
FreedOnFailure(site) ==
    CASE site = "durations_index" -> {}
      [] site = "mean_y_0" -> {"durations_index"}
      [] site = "mean_ivar_0" -> {"mean_y_0", "durations_index"}

FailureCode(site) ==
    CASE site = "durations_index" -> -1
      [] site = "mean_y_0" -> -2
      [] site = "mean_ivar_0" -> -3

Free(bs) == [b \in Buffers |-> IF b \in bs THEN released[b] + 1 ELSE released[b]]

DurationBins(k) ==
    LET v == Round(RDiv(FromInt(args.durations[k]), bin_duration))
    IN  IF v <= 0 THEN 1 ELSE v

AllocDurationsIndex ==
    /\ pc = "alloc_durations_index"
    /\ \E ok \in BOOLEAN :
         IF ok
         THEN /\ acquired' = [acquired EXCEPT !["durations_index"] = @ + 1]
              /\ durations_index' = [k \in Durations |-> DurationBins(k)]
              /\ pc' = "threads"
              /\ UNCHANGED <<status, released, failed>>
         ELSE /\ failed' = "durations_index"
              /\ released' = Free(FreedOnFailure("durations_index"))
              /\ status' = FailureCode("durations_index")
              /\ pc' = "done"
              /\ UNCHANGED <<acquired, durations_index>>
    /\ UNCHANGED <<args, openmp, bin_duration, max_n_bins, nthreads, mean_y_0,
                   mean_ivar_0, sums, th, assigned, finished, out, writes, accepted>>

\* lines 91-99: one thread without OpenMP, the size of the team with it
QueryThreads ==
    /\ pc = "threads"
    /\ \E nt \in (IF openmp THEN 1 .. MaxThreads ELSE {1}) : nthreads' = nt
    /\ pc' = "alloc_mean_y"
    /\ UNCHANGED <<args, openmp, status, acquired, released, failed, bin_duration,
                   max_n_bins, durations_index, mean_y_0, mean_ivar_0, sums, th,
                   assigned, finished, out, writes, accepted>>

\* malloc returns storage of indeterminate content
Fresh(g) == [i \in 0 .. (nthreads * blocksize - 1) |-> g]

AllocMeanY ==
    /\ pc = "alloc_mean_y"
    /\ \E ok \in BOOLEAN, g \in GarbageValues :
         IF ok
         THEN /\ acquired' = [acquired EXCEPT !["mean_y_0"] = @ + 1]
              /\ mean_y_0' = Fresh(g)
              /\ pc' = "alloc_mean_ivar"
              /\ UNCHANGED <<status, released, failed>>
         ELSE /\ failed' = "mean_y_0"
              /\ released' = Free(FreedOnFailure("mean_y_0"))
              /\ status' = FailureCode("mean_y_0")
              /\ pc' = "done"
              /\ UNCHANGED <<acquired, mean_y_0>>
    /\ UNCHANGED <<args, openmp, bin_duration, max_n_bins, durations_index, nthreads,
                   mean_ivar_0, sums, th, assigned, finished, out, writes, accepted>>

AllocMeanIvar ==
    /\ pc = "alloc_mean_ivar"
    /\ \E ok \in BOOLEAN, g \in GarbageValues :
         IF ok
         THEN /\ acquired' = [acquired EXCEPT !["mean_ivar_0"] = @ + 1]
              /\ mean_ivar_0' = Fresh(g)
              /\ pc' = "accumulate"
              /\ UNCHANGED <<status, released, failed>>
         ELSE /\ failed' = "mean_ivar_0"
              /\ released' = Free(FreedOnFailure("mean_ivar_0"))
              /\ status' = FailureCode("mean_ivar_0")
              /\ pc' = "done"
              /\ UNCHANGED <<acquired, mean_ivar_0>>
    /\ UNCHANGED <<args, openmp, bin_duration, max_n_bins, durations_index, nthreads,
                   mean_y_0, sums, th, assigned, finished, out, writes, accepted>>

\* ------------------------------------------------------ global baseline
RECURSIVE SumFrom(_, _)
SumFrom(n, acc) ==
    IF n >= args.N THEN acc
    ELSE LET tmp == args.y[n] * args.ivar[n]
         IN  SumFrom(n + 1, [sum_y2 |-> acc.sum_y2 + args.y[n] * tmp,
                             sum_y |-> acc.sum_y + tmp,
                             sum_ivar |-> acc.sum_ivar + args.ivar[n]])

Accumulate ==
    /\ pc = "accumulate"
    /\ sums' = SumFrom(0, [sum_y2 |-> 0, sum_y |-> 0, sum_ivar |-> 0])
    /\ pc' = "search"
    /\ UNCHANGED <<args, openmp, status, acquired, released, failed, bin_duration,
                   max_n_bins, durations_index, nthreads, mean_y_0, mean_ivar_0,
                   th, assigned, finished, out, writes, accepted>>

\* ------------------------------------------- one period: the histogram
\* a pair of scratch arrays
Pair(my, mi) == [y |-> my, ivar |-> mi]

\* a variant in which every thread works at the start of the scratch arrays
BlockShared(ithread, bsize) == 0

\* line 132: the offset of a thread's block in the two scratch arrays
Block(ithread, bsize) == bsize * ithread

\* line 134
NBins(period) == Trunc(RDiv(FromInt(period), bin_duration)) + args.oversample

\* line 147
BinIndex(tn, period) ==
    Trunc(RDiv(FromInt(Abs(FMod(tn, period))), bin_duration)) + 1

\* lines 142-145
Clear(a, base, n_bins) ==
    [i \in DOMAIN a |-> IF i \in base .. (base + n_bins) THEN 0 ELSE a[i]]

\* lines 146-150, from sample n on
RECURSIVE BinFrom(_, _, _, _)
BinFrom(h, base, period, n) ==
    IF n >= args.N THEN h
    ELSE LET ind == base + BinIndex(args.t[n], period)
         IN  BinFrom(Pair([h.y EXCEPT ![ind] = @ + args.y[n] * args.ivar[n]],
                          [h.ivar EXCEPT ![ind] = @ + args.ivar[n]]),
                     base, period, n + 1)

BinPass(h, base, period, n_bins) ==
    BinFrom(Pair(Clear(h.y, base, n_bins), Clear(h.ivar, base, n_bins)), base, period, 0)

\* lines 154-157, from loop counter n with destination ind
RECURSIVE WrapFrom(_, _, _, _)
WrapFrom(h, base, n, ind) ==
    IF n > args.oversample THEN h
    ELSE WrapFrom(Pair([h.y EXCEPT ![base + ind] = h.y[base + n]],
                       [h.ivar EXCEPT ![base + ind] = h.ivar[base + n]]),
                  base, n + 1, ind + 1)

\* line 154: the first destination of the wrap-around copy
WrapStart(n_bins) == n_bins - args.oversample

WrapPass(h, base, n_bins) == WrapFrom(h, base, 1, WrapStart(n_bins))

\* lines 164-167, from position n on
RECURSIVE CumFrom(_, _, _, _)
CumFrom(h, base, n_bins, n) ==
    IF n > n_bins THEN h
    ELSE CumFrom(Pair([h.y EXCEPT ![base + n] = @ + h.y[base + n - 1]],
                      [h.ivar EXCEPT ![base + n] = @ + h.ivar[base + n - 1]]),
                 base, n_bins, n + 1)

CumPass(h, base, n_bins) == CumFrom(h, base, n_bins, 1)

\* ------------------------------------------------ one period: the scan
\* lines 175-191 for the window (k, n) of the block at base
Window(h, base, k, n) ==
    LET dur == durations_index[k]
        y_in == h.y[base + n + dur] - h.y[base + n]
        ivar_in == h.ivar[base + n + dur] - h.ivar[base + n]
        y_out == sums.sum_y - y_in
        ivar_out == sums.sum_ivar - ivar_in
        skip == LtEpsilon(ivar_in) \/ LtEpsilon(ivar_out)
    IN  [dur |-> dur, sum_in |-> y_in, ivar_in |-> ivar_in, ivar_out |-> ivar_out,
         skip |-> skip,
         y_in |-> IF skip THEN Unassigned ELSE Rat(y_in, ivar_in),
         y_out |-> IF skip THEN Unassigned ELSE Rat(y_out, ivar_out)]

\* variants of the acceptance test: no comparison with the current best, no
\* dip test, and a comparison that is not strict
AcceptAnyDip(y_in, y_out, objective, best) == RGe(y_out, y_in)
AcceptNoDipTest(y_in, y_out, objective, best) == RGt(objective, best)
AcceptNotStrict(y_in, y_out, objective, best) == RGe(y_out, y_in) /\ RGe(objective, best)

\* line 199
Accept(y_in, y_out, objective, best) == RGe(y_out, y_in) /\ RGt(objective, best)

\* a variant whose second call repeats the mode of the first
SameFlag(flag) == flag

\* line 203: the flag of the second call
OtherFlag(flag) == IF flag = 0 THEN 1 ELSE 0

\* a variant that forgets the store of line 209
WrittenOnAcceptNoLogLike ==
    {"best_objective", "best_depth", "best_depth_err", "best_depth_snr",
     "best_duration", "best_phase"}

\* the output arrays lines 200-211 store into
WrittenOnAccept ==
    {"best_objective", "best_depth", "best_depth_err", "best_depth_snr",
     "best_log_like", "best_duration", "best_phase"}

\* lines 195-211 for a window that is not skipped: the locals after the body
\* and, when the window is kept, the values stored into slot p
Evaluate(w, period, n, loc, best) ==
    LET loc1 == compute_objective(w.y_in, w.y_out, w.ivar_in, w.ivar_out,
                                  sums.sum_y2, sums.sum_y, sums.sum_ivar,
                                  args.obj_flag, loc)
        acc == Accept(w.y_in, w.y_out, loc1.objective, best)
        loc2 == compute_objective(w.y_in, w.y_out, w.ivar_in, w.ivar_out,
                                  sums.sum_y2, sums.sum_y, sums.sum_ivar,
                                  OtherFlag(args.obj_flag), loc1)
        duration == RMul(FromInt(w.dur), bin_duration)
        phase == RFMod(RAdd(RMul(FromInt(n), bin_duration),
                            RMul(Rat(1, 2), duration)), period)
    IN  [accept |-> acc,
         loc |-> IF acc THEN loc2 ELSE loc1,
         store |-> [best_objective |-> loc1.objective,
                    best_depth |-> loc2.depth,
                    best_depth_err |-> loc2.depth_err,
                    best_depth_snr |-> loc2.depth_snr,
                    best_log_like |-> loc2.log_like,
                    best_duration |-> duration,
                    best_phase |-> phase]]

\* the loop headers of lines 174-177: the first window at or after (k, n)
RECURSIVE WindowFrom(_, _, _)
WindowFrom(k, n, n_bins) ==
    IF k >= args.n_durations THEN [k |-> args.n_durations, n |-> 0]
    ELSE IF n <= n_bins - durations_index[k] THEN [k |-> k, n |-> n]
    ELSE WindowFrom(k + 1, 0, n_bins)

\* ------------------------------------------------------ thread actions
Scratch == Pair(mean_y_0, mean_ivar_0)

\* lines 126-137: thread w takes iteration p of the parallel loop
Begin(w, p) ==
    /\ pc = "search"
    /\ w < nthreads
    /\ th[w].pc = "idle"
    /\ p \in Periods \ assigned
    /\ assigned' = assigned \cup {p}
    /\ th' = [th EXCEPT ![w] = [Idle EXCEPT !.pc = "bin", !.p = p,
                                            !.n_bins = NBins(args.periods[p])]]
    /\ UNCHANGED <<args, openmp, pc, status, acquired, released, failed,
                   bin_duration, max_n_bins, durations_index, nthreads, mean_y_0,
                   mean_ivar_0, sums, finished, out, writes, accepted>>

SetScratch(h) == mean_y_0' = h.y /\ mean_ivar_0' = h.ivar

Bin(w) ==
    /\ pc = "search"
    /\ th[w].pc = "bin"
    /\ SetScratch(BinPass(Scratch, Block(w, blocksize), args.periods[th[w].p],
                          th[w].n_bins))
    /\ th' = [th EXCEPT ![w].pc = "wrap"]
    /\ UNCHANGED <<args, openmp, pc, status, acquired, released, failed,
                   bin_duration, max_n_bins, durations_index, nthreads, sums,
                   assigned, finished, out, writes, accepted>>

Wrap(w) ==
    /\ pc = "search"
    /\ th[w].pc = "wrap"
    /\ SetScratch(WrapPass(Scratch, Block(w, blocksize), th[w].n_bins))
    /\ th' = [th EXCEPT ![w].pc = "cumsum"]
    /\ UNCHANGED <<args, openmp, pc, status, acquired, released, failed,
                   bin_duration, max_n_bins, durations_index, nthreads, sums,
                   assigned, finished, out, writes, accepted>>

CumSum(w) ==
    /\ pc = "search"
    /\ th[w].pc = "cumsum"
    /\ SetScratch(CumPass(Scratch, Block(w, blocksize), th[w].n_bins))
    /\ th' = [th EXCEPT ![w].pc = "scan_init"]
    /\ UNCHANGED <<args, openmp, pc, status, acquired, released, failed,
                   bin_duration, max_n_bins, durations_index, nthreads, sums,
                   assigned, finished, out, writes, accepted>>

Store(o, fs, p, vals) ==
    [f \in Fields |-> IF f \in fs THEN [o[f] EXCEPT ![p] = vals[f]] ELSE o[f]]

Count(c, fs, p) ==
    [f \in Fields |-> IF f \in fs THEN [c[f] EXCEPT ![p] = @ + 1] ELSE c[f]]

\* lines 172-174: the sentinel, and the loops are entered
ScanInit(w) ==
    /\ pc = "search"
    /\ th[w].pc = "scan_init"
    /\ LET p == th[w].p
           first == WindowFrom(0, 0, th[w].n_bins)
       IN  /\ out' = [out EXCEPT !["best_objective"][p] = NegInf]
           /\ writes' = Count(writes, {"best_objective"}, p)
           /\ th' = [th EXCEPT ![w].pc = IF first.k >= args.n_durations
                                          THEN "end" ELSE "scan",
                               ![w].k = first.k, ![w].n = first.n]
    /\ UNCHANGED <<args, openmp, pc, status, acquired, released, failed,
                   bin_duration, max_n_bins, durations_index, nthreads, mean_y_0,
                   mean_ivar_0, sums, assigned, finished, accepted>>

\* lines 177-213: the body of the inner loop for the window (k, n), then ++n
ScanStep(w) ==
    /\ pc = "search"
    /\ th[w].pc = "scan"
    /\ LET p == th[w].p
           k == th[w].k
           n == th[w].n
           win == Window(Scratch, Block(w, blocksize), k, n)
           next == WindowFrom(k, n + 1, th[w].n_bins)
           npc == IF next.k >= args.n_durations THEN "end" ELSE "scan"
       IN  IF win.skip
           THEN /\ th' = [th EXCEPT ![w].pc = npc, ![w].k = next.k, ![w].n = next.n]
                /\ UNCHANGED <<out, writes, accepted>>
           ELSE LET e == Evaluate(win, args.periods[p], n, th[w].loc,
                                  out["best_objective"][p])
                IN  /\ th' = [th EXCEPT ![w].pc = npc, ![w].k = next.k,
                                        ![w].n = next.n, ![w].loc = e.loc]
                    /\ IF e.accept
                       THEN /\ out' = Store(out, WrittenOnAccept, p, e.store)
                            /\ writes' = Count(writes, WrittenOnAccept, p)
                            /\ accepted' = [accepted EXCEPT ![p] = @ + 1]
                       ELSE UNCHANGED <<out, writes, accepted>>
    /\ UNCHANGED <<args, openmp, pc, status, acquired, released, failed,
                   bin_duration, max_n_bins, durations_index, nthreads, mean_y_0,
                   mean_ivar_0, sums, assigned, finished>>

\* line 215: the iteration ends; its locals die
Finish(w) ==
    /\ pc = "search"
    /\ th[w].pc = "end"
    /\ finished' = finished \cup {th[w].p}
    /\ th' = [th EXCEPT ![w] = Idle]
    /\ UNCHANGED <<args, openmp, pc, status, acquired, released, failed,
                   bin_duration, max_n_bins, durations_index, nthreads, mean_y_0,
                   mean_ivar_0, sums, assigned, out, writes, accepted>>

\* lines 217-222: the barrier that ends the loop, the three frees, return 0
Cleanup ==
    /\ pc = "search"
    /\ finished = Periods
    /\ released' = Free(Buffers)
    /\ status' = 0
    /\ pc' = "done"
    /\ UNCHANGED <<args, openmp, acquired, failed, bin_duration, max_n_bins,
                   durations_index, nthreads, mean_y_0, mean_ivar_0, sums, th,
                   assigned, finished, out, writes, accepted>>

Next ==
    \/ Validate
    \/ AllocDurationsIndex
    \/ QueryThreads
    \/ AllocMeanY
    \/ AllocMeanIvar
    \/ Accumulate
    \/ \E w \in Threads, p \in PeriodIndex : Begin(w, p)
    \/ \E w \in Threads : Bin(w)
    \/ \E w \in Threads : Wrap(w)
    \/ \E w \in Threads : CumSum(w)
    \/ \E w \in Threads : ScanInit(w)
    \/ \E w \in Threads : ScanStep(w)
    \/ \E w \in Threads : Finish(w)
    \/ Cleanup

Spec == Init /\ [][Next]_vars
SpecOMP == InitOMP /\ [][Next]_vars

\* ------------------------------------- the loop run by a single thread
\* lines 174-214 from window win on, on the block at offset 0; res is slot p
RECURSIVE ScanFrom(_, _, _, _, _, _)
ScanFrom(h, p, n_bins, win, loc, res) ==
    IF win.k >= args.n_durations THEN res
    ELSE LET w == Window(h, 0, win.k, win.n)
             next == WindowFrom(win.k, win.n + 1, n_bins)
         IN  IF w.skip THEN ScanFrom(h, p, n_bins, next, loc, res)
             ELSE LET e == Evaluate(w, args.periods[p], win.n, loc, res.best_objective)
                  IN  ScanFrom(h, p, n_bins, next, e.loc,
                               IF e.accept
                               THEN [f \in Fields |->
                                       IF f \in WrittenOnAccept THEN e.store[f] ELSE res[f]]
                               ELSE res)

\* lines 126-215 for p, p+1, ... in turn, all by thread 0
RECURSIVE SerialFrom(_, _, _)
SerialFrom(p, h, o) ==
    IF p >= args.n_periods THEN o
    ELSE LET n_bins == NBins(args.periods[p])
             h1 == CumPass(WrapPass(BinPass(h, 0, args.periods[p], n_bins), 0, n_bins),
                           0, n_bins)
             res0 == [f \in Fields |-> IF f = "best_objective" THEN NegInf ELSE o[f][p]]
             res == ScanFrom(h1, p, n_bins, WindowFrom(0, 0, n_bins), Locals0, res0)
         IN  SerialFrom(p + 1, h1, [f \in Fields |-> [o[f] EXCEPT ![p] = res[f]]])

\* the outputs of the run with one thread whose scratch block starts as g
SerialOut(g) ==
    SerialFrom(0, Pair([i \in 0 .. (blocksize - 1) |-> g], [i \in 0 .. (blocksize - 1) |-> g]),
               [f \in Fields |-> [p \in Periods |-> Unassigned]])

\* ================================================================ claims
MinOf(S) == CHOOSE x \in S : \A z \in S : x <= z
MaxOf(S) == CHOOSE x \in S : \A z \in S : x >= z
PeriodSet == {args.periods[k] : k \in Periods}
DurationSet == {args.durations[k] : k \in Durations}
BadPeriods == MinOf(PeriodSet) <= 0
BadDurations == (MaxOf(DurationSet) > MinOf(PeriodSet)) \/ (MinOf(DurationSet) <= 0)
NothingWritten == \A f \in Fields : \A p \in Periods :
                      writes[f][p] = 0 /\ out[f][p] = Unassigned

\* the threads that are inside an iteration, and those whose scan is over
Busy == {w \in Threads : th[w].pc # "idle"}
AtEnd == {w \in Threads : th[w].pc = "end"}
Base(w) == Block(w, blocksize)
\* the windows the scan of thread w's period visits
Scanned(w) ==
    {kn \in Durations \X (0 .. th[w].n_bins) : kn[2] <= th[w].n_bins - durations_index[kn[1]]}
Win(w, kn) == Window(Scratch, Base(w), kn[1], kn[2])
Weighted(w) == {kn \in Scanned(w) : ~Win(w, kn).skip}
Dips(w) == {kn \in Weighted(w) : RGe(Win(w, kn).y_out, Win(w, kn).y_in)}
\* what the Objective Evaluator gives for a window in either mode
Eval(w, kn, flag) ==
    LET x == Win(w, kn)
    IN  compute_objective(x.y_in, x.y_out, x.ivar_in, x.ivar_out, sums.sum_y2,
                          sums.sum_y, sums.sum_ivar, flag, Locals0)
Obj(w, kn) == Eval(w, kn, args.obj_flag).objective
DurationOf(w, kn) == RMul(FromInt(durations_index[kn[1]]), bin_duration)
PhaseOf(w, kn) ==
    RFMod(RAdd(RMul(FromInt(kn[2]), bin_duration), RMul(Rat(1, 2), DurationOf(w, kn))),
          args.periods[th[w].p])
Before(a, b) == a[1] < b[1] \/ (a[1] = b[1] /\ a[2] <= b[2])

\* C1: the call returns 1 when min(periods) < epsilon, otherwise 2 when
\* max(durations) > min(periods) or min(durations) < epsilon, otherwise 0 when
\* no allocation fails; an invalid grid stops the call at validation, with no
\* output element written.
C1_Validation ==
    /\ (BadPeriods \/ BadDurations) => pc \in {"validate", "done"}
    /\ pc = "done" =>
         /\ BadPeriods => status = 1
         /\ (~BadPeriods /\ BadDurations) => status = 2
         /\ (~BadPeriods /\ ~BadDurations /\ failed = "none") => status = 0
         /\ status \in {1, 2} => (BadPeriods \/ BadDurations) /\ NothingWritten
C1_Witness ==
    pc = "done" /\ status = 2 /\ MinOf(DurationSet) > 0 /\ NothingWritten

\* C2 (as amended): once the scan of a period that accepted a candidate is
\* over, best_objective[p] is >= the objective of every scanned window of the
\* period that passes the weight skip rule and is a dip (y_out >= y_in), under
\* both obj_flag settings.
C2_OptimalAmongDips ==
    \A w \in AtEnd : accepted[th[w].p] > 0 =>
        LET best == out["best_objective"][th[w].p]
        IN  \A kn \in Dips(w) : RGe(best, Obj(w, kn))
C2_Witness ==
    \E w \in AtEnd : /\ accepted[th[w].p] >= 2
                     /\ args.obj_flag = 1
                     /\ Weighted(w) # Dips(w)
\* C2 as stated: best_objective[p] is >= the objective of every scanned window
\* that passes the weight skip rule.
C2_OptimalAmongAll ==
    \A w \in AtEnd : accepted[th[w].p] > 0 =>
        \A kn \in Weighted(w) : RGe(out["best_objective"][th[w].p], Obj(w, kn))

\* C3: once the scan of a period that accepted a candidate is over, the seven
\* output slots of the period are those of one scanned window: depth, depth_err,
\* depth_snr and log_like are what the Objective Evaluator gives for it, duration
\* and phase are its, and best_objective is its depth_snr (obj_flag = 0) or its
\* log_like (obj_flag = 1).
C3_OneWindow ==
    \A w \in AtEnd : accepted[th[w].p] > 0 =>
        LET p == th[w].p
        IN  /\ \E kn \in Weighted(w) :
                 /\ out["best_depth"][p] = Eval(w, kn, 0).depth
                 /\ out["best_depth_err"][p] = Eval(w, kn, 0).depth_err
                 /\ out["best_depth_snr"][p] = Eval(w, kn, 0).depth_snr
                 /\ out["best_log_like"][p] = Eval(w, kn, 1).log_like
                 /\ out["best_objective"][p] = Obj(w, kn)
                 /\ out["best_duration"][p] = DurationOf(w, kn)
                 /\ out["best_phase"][p] = PhaseOf(w, kn)
            /\ out["best_objective"][p] =
                 IF args.obj_flag = 0 THEN out["best_depth_snr"][p]
                 ELSE out["best_log_like"][p]
C3_Witness ==
    \E w \in AtEnd : /\ accepted[th[w].p] >= 2
                     /\ \E kn \in Weighted(w) :
                          Obj(w, kn) # out["best_objective"][th[w].p]

\* C4 (as amended): best_objective[p] is stored once when the scan of period p
\* begins and once more for each accepted window; each of the other six fields
\* is stored once for each accepted window (not at all when none is accepted);
\* every store happens during the scan, none after the period has finished.
ScanBegun(p) ==
    p \in finished \/ \E w \in Threads : th[w].p = p /\ th[w].pc \in {"scan", "end"}
C4_StoreCounts ==
    \A p \in Periods : \A f \in Fields :
        writes[f][p] = IF ~ScanBegun(p) THEN 0
                       ELSE IF f = "best_objective" THEN 1 + accepted[p]
                       ELSE accepted[p]
C4_NoStoreAfterFinish ==
    \A p \in finished : \A f \in Fields :
        writes'[f][p] = writes[f][p] /\ out'[f][p] = out[f][p]
C4_WritesDuringScan == [] C4_StoreCounts /\ [][C4_NoStoreAfterFinish]_vars
C4_Witness ==
    \E p \in finished : writes["best_depth"][p] >= 2 /\ writes["best_objective"][p] >= 3
\* C4 as stated: each field of a period is stored exactly once, after the scan
\* of the period has finished.
C4_WrittenOnceAfterScan ==
    \A p \in Periods : \A f \in Fields :
        writes[f][p] = IF p \in finished THEN 1 ELSE 0

\* C5: with any number of threads, any assignment of periods to threads and any
\* interleaving, two threads inside an iteration work on different periods and
\* on disjoint ranges of the scratch arrays, and the outputs of a successful
\* call are those of the run with one thread, whatever the scratch held before.
C5_SameAsOneThread ==
    /\ \A w1 \in Busy : \A w2 \in Busy \ {w1} :
         /\ th[w1].p # th[w2].p
         /\ (Base(w1) .. (Base(w1) + th[w1].n_bins))
              \cap (Base(w2) .. (Base(w2) + th[w2].n_bins)) = {}
    /\ \A w \in Busy : Base(w) + th[w].n_bins \in DOMAIN mean_y_0
    /\ (pc = "done" /\ status = 0) => \A g \in GarbageValues \cup {0} : out = SerialOut(g)
C5_Witness ==
    /\ th[0].pc = "scan" /\ th[1].pc = "wrap"
    /\ th[0].n_bins > th[1].n_bins
    /\ th[0].p > th[1].p

\* C6: at return every buffer that was acquired has been released exactly once
\* (and none that was not), nothing is released before the return, no buffer is
\* acquired before validation has passed, and each allocation-failure site
\* returns its own negative code.
C6_Buffers ==
    /\ \A b \in Buffers : acquired[b] <= 1 /\ released[b] <= acquired[b]
    /\ pc = "validate" => \A b \in Buffers : acquired[b] = 0
    /\ pc # "done" => \A b \in Buffers : released[b] = 0
    /\ pc = "done" =>
         /\ \A b \in Buffers : released[b] = acquired[b]
         /\ status \in {1, 2} => \A b \in Buffers : acquired[b] = 0
         /\ status = 0 => \A b \in Buffers : acquired[b] = 1
         /\ (failed = "durations_index") <=> (status = -1)
         /\ (failed = "mean_y_0") <=> (status = -2)
         /\ (failed = "mean_ivar_0") <=> (status = -3)
         /\ status \in {0, 1, 2, -1, -2, -3}
C6_Witness ==
    pc = "done" /\ status = -3 /\ released["mean_y_0"] = 1 /\ released["mean_ivar_0"] = 0

\* C7: a period none of whose scanned windows is accepted (each is skipped for
\* its weights or is a brightening) ends with best_objective[p] = -infinity and
\* its other six slots never stored into, and the call still returns 0.
OthersUntouched(p) ==
    \A f \in Fields \ {"best_objective"} : writes[f][p] = 0 /\ out[f][p] = Unassigned
C7_NoDetection ==
    /\ \A w \in AtEnd : Dips(w) = {} =>
         /\ accepted[th[w].p] = 0
         /\ out["best_objective"][th[w].p] = NegInf
         /\ OthersUntouched(th[w].p)
    /\ (pc = "done" /\ finished = Periods) =>
         /\ status = 0
         /\ \A p \in Periods : accepted[p] = 0 =>
              out["best_objective"][p] = NegInf /\ OthersUntouched(p)
C7_Witness ==
    \E w \in AtEnd : Dips(w) = {} /\ Weighted(w) # {}

\* C8: among the dip windows of a period that attain the largest objective of
\* its dip windows, the one first in scan order (lowest k, then lowest n) is
\* the one reported: best_duration, best_phase and best_objective are its.
FirstBest(w) ==
    LET dips == Dips(w)
        obj == [kn \in dips |-> Obj(w, kn)]
    IN  CHOOSE a \in dips :
            \A b \in dips : /\ RGe(obj[a], obj[b])
                            /\ obj[a] = obj[b] => Before(a, b)
C8_FirstOfTheBest ==
    \A w \in AtEnd : Dips(w) # {} =>
        LET first == FirstBest(w)
        IN  /\ out["best_objective"][th[w].p] = Obj(w, first)
            /\ out["best_duration"][th[w].p] = DurationOf(w, first)
            /\ out["best_phase"][th[w].p] = PhaseOf(w, first)
C8_Witness ==
    \E w \in AtEnd : Dips(w) # {} /\
        LET first == FirstBest(w)
        IN  \E b \in Dips(w) : /\ Obj(w, b) = Obj(w, first)
                               /\ DurationOf(w, b) # DurationOf(w, first)
                               /\ PhaseOf(w, b) # PhaseOf(w, first)

\* the samples the binner puts into bin q of period p, and sums over samples
BinMembers(p, q) == {i \in 0 .. (args.N - 1) : BinIndex(args.t[i], args.periods[p]) = q}
RECURSIVE WeightOf(_)
WeightOf(S) ==
    IF S = {} THEN 0
    ELSE LET i == CHOOSE j \in S : TRUE IN args.ivar[i] + WeightOf(S \ {i})
RECURSIVE FluxOf(_)
FluxOf(S) ==
    IF S = {} THEN 0
    ELSE LET i == CHOOSE j \in S : TRUE IN args.y[i] * args.ivar[i] + FluxOf(S \ {i})

\* C9: after the wrap-around step, position n_bins-oversample+j holds the
\* pre-wrap value of bin j for every j in 1..oversample, in mean_y and in
\* mean_ivar, and every position below n_bins-oversample+1 is as the binner
\* filled it.
C9_WrapToTail ==
    \A w \in Threads : th[w].pc = "cumsum" =>
        LET p == th[w].p
            tail == th[w].n_bins - args.oversample
        IN  /\ \A j \in 1 .. args.oversample :
                 /\ mean_y_0[Base(w) + tail + j] = FluxOf(BinMembers(p, j))
                 /\ mean_ivar_0[Base(w) + tail + j] = WeightOf(BinMembers(p, j))
            /\ \A q \in 0 .. tail :
                 /\ mean_y_0[Base(w) + q] = FluxOf(BinMembers(p, q))
                 /\ mean_ivar_0[Base(w) + q] = WeightOf(BinMembers(p, q))

\* the samples whose folded phase lies in [n*bin_duration, (n+dur)*bin_duration)
\* taken modulo the period
PhaseMembers(p, n, dur) ==
    LET lo == RMul(FromInt(n), bin_duration)
        hi == RMul(FromInt(n + dur), bin_duration)
        Inside(x) == RGe(FromInt(x), lo) /\ RGt(hi, FromInt(x))
    IN  {i \in 0 .. (args.N - 1) :
            LET ph == Abs(FMod(args.t[i], args.periods[p]))
            IN  Inside(ph) \/ Inside(ph + args.periods[p])}

\* C10: for every scanned window the prefix-sum differences are the sums of
\* ivar and of y*ivar over exactly the samples whose folded phase lies in the
\* window's phase interval, and the remainders of sum_ivar and sum_y are the
\* sums over the other samples.
C10_WindowSums ==
    \A w \in Threads : th[w].pc \in {"scan", "end"} =>
        \A kn \in Scanned(w) :
            LET x == Win(w, kn)
                members == PhaseMembers(th[w].p, kn[2], x.dur)
            IN  /\ x.ivar_in = WeightOf(members)
                /\ x.sum_in = FluxOf(members)
                /\ x.ivar_out = WeightOf((0 .. (args.N - 1)) \ members)

====
